---------------------------- MODULE Spec2Model ----------------------------
(***************************************************************************)
(* State-machine model of the two seller-to-domain enrichment drivers:     *)
(*   enrich_sellers.py       the batched pipeline  (variant = "batch")     *)
(*   enrich_sellers_lite.py  the per-row pipeline  (variant = "lite")      *)
(* The model follows main() of each file statement by statement: reading   *)
(* the CSV, partitioning the rows, searching, the LLM call and the parse   *)
(* of its answer, recording the decisions in the (aliased) row objects,    *)
(* and every write of the output file.  A write is open(path, "w") - which *)
(* truncates the file - followed by buffered row writes and a close, so    *)
(* the file on disk is modelled at each of these points.  The process can  *)
(* be killed in any state and be run again on the file it left.            *)
(***************************************************************************)
EXTENDS Naturals, Sequences, FiniteSets

\* ------------------------------------------------------------------ bounds
NumRows  == 2      \* data rows of the input table
MaxBatch == 2      \* --batch-size ranges over 1..MaxBatch
MaxLimit == 1      \* --limit ranges over 0..MaxLimit (0: option absent)
MaxDupCols == 2    \* runs are restarted while the header holds at most this many output columns
MaxRetries == 3    \* max_retries of serpapi_search ranges over 0..MaxRetries (its default is 3)
MaxHits == 3       \* search hits handed to filter_results
NumHosts == 14     \* distinct hosts the search providers return links to

\* --------------------------------------------------------- program constants
NOT_FOUND == "NOT FOUND"
BATCH_COL == "domain from custom script"
LITE_COL  == "domain from custom script (lite)"
RequiredCols == <<"Seller", "Business Name", "Category">>

Null == "null"                       \* JSON null / Python None
Paths == {"in.csv", "out.csv"}

Min(a, b) == IF a <= b THEN a ELSE b

RECURSIVE SeqRange(_, _)
SeqRange(a, b) == IF a > b THEN <<>> ELSE <<a>> \o SeqRange(a + 1, b)

Count(s, x) == Cardinality({k \in 1..Len(s) : s[k] = x})
InSeq(s, x) == \E k \in 1..Len(s) : s[k] = x

\* -------------------------------------------------------------- the tables
\* A data row: the payload columns (id stands for all the opaque ones) and
\* the value of the variant's output column ("" when absent or empty).
RowOf(i, seller, business, out) ==
    [id |-> i, seller |-> seller, business |-> business, out |-> out]

RowKinds(i) ==
    { RowOf(i, "", "", ""),               \* no name at all
      RowOf(i, "acme", "Acme LLC", ""),   \* to be resolved
      RowOf(i, "acme", "Acme LLC", "a.com") }   \* resolved by an earlier run

\* A file: absent, or a header line and data rows (both empty right after
\* open(path, "w") truncated it).
Absent == [exists |-> FALSE, header |-> <<>>, rows |-> <<>>]
FileOf(header, rows) == [exists |-> TRUE, header |-> header, rows |-> rows]

VARIABLES
    variant,          \* which script runs: "batch" or "lite"
    args,             \* parsed command line: input, output, limit, batch_size
    fs,               \* the file system: path -> file
    pc,               \* position of the process in main()
    wopen,            \* the output file is open for writing
    fieldnames,       \* reader.fieldnames
    output_fieldnames,
    input_rows,       \* the row objects, by input position (mutated in place)
    to_process,       \* batch: companies {index, row}; row refers to input_rows[row]
    processed_rows,   \* batch: index -> row reference
    batch_start,      \* batch: loop variable (0-based)
    results,          \* batch: what analyze_batch returned for the last batch
    raised,           \* batch: the last batch went through the except branch
    output_rows,      \* lite: row references appended so far
    i,                \* lite: loop variable (0-based)
    count,            \* lite: rows processed
    result,           \* lite: what process_seller returned for the last row
    stats,            \* found / not_found / skipped
    searched,         \* rows a search was issued for, this run
    llm_calls,        \* LLM calls issued, this run
    ckpts,            \* completed writes of the output file, this run
    input0,           \* the table as read at the start of this run
    afterDone,        \* this run was started after a run that returned 0
    call              \* a function examined on its own: arguments, locals, return value

vars == <<variant, args, fs, pc, wopen, fieldnames, output_fieldnames,
          input_rows, to_process, processed_rows, batch_start, results,
          raised, output_rows, i, count, result, stats, searched,
          llm_calls, ckpts, input0, afterDone, call>>

OutCol == IF variant = "batch" THEN BATCH_COL ELSE LITE_COL

ZeroStats == [found |-> 0, not_found |-> 0, skipped |-> 0]
NoResult == [kind |-> "none", domain |-> Null, conf |-> "absent"]

\* ------------------------------------------------------------- LLM answers
\* One element of the parsed JSON: an object with a domain and a confidence
\* ("absent" when the key is missing), or something that is not an object.
Obj(domain, conf) == [kind |-> "obj", domain |-> domain, conf |-> conf]
NonObj == [kind |-> "nonobj", domain |-> Null, conf |-> "absent"]
Elems == { Obj(Null, "none"), Obj("a.com", "high"), Obj("b.com", "low"),
           Obj("b.com", "absent"), NonObj }

\* Python truthiness of a value read with .get("domain")
Truthy(v) == v # Null /\ v # ""

\* str.strip() on the values an output cell takes in the model
Strip(v) == IF v = " " THEN "" ELSE v

\* ---------------------------------------------------- enrich_sellers.py main
\* A variant of Partition that does not skip the rows already resolved
RECURSIVE PartitionResolvedAgain(_, _, _, _)
PartitionResolvedAgain(rows, k, limit, acc) ==
    IF k > Len(rows) THEN acc
    ELSE IF rows[k].business = "" /\ rows[k].seller = ""
         THEN PartitionResolvedAgain(rows, k + 1, limit, [acc EXCEPT !.skipped = @ + 1])
    ELSE IF limit # 0 /\ Len(acc.to_process) >= limit
         THEN PartitionResolvedAgain(rows, k + 1, limit, acc)
    ELSE PartitionResolvedAgain(rows, k + 1, limit,
                   [acc EXCEPT !.to_process = Append(@, [index |-> k, row |-> k])])

\* The partition loop: which rows are skipped, which go to to_process.
\* Positions are 1-based here (enumerate() counts from 0).
RECURSIVE Partition(_, _, _, _)
Partition(rows, k, limit, acc) ==
    IF k > Len(rows) THEN acc
    ELSE IF rows[k].business = "" /\ rows[k].seller = ""
         THEN Partition(rows, k + 1, limit, [acc EXCEPT !.skipped = @ + 1])
    ELSE IF Strip(rows[k].out) # ""
         THEN Partition(rows, k + 1, limit, [acc EXCEPT !.skipped = @ + 1])
    ELSE IF limit # 0 /\ Len(acc.to_process) >= limit
         THEN Partition(rows, k + 1, limit, acc)
    ELSE Partition(rows, k + 1, limit,
                   [acc EXCEPT !.to_process = Append(@, [index |-> k, row |-> k])])

ToProcess(rows, limit) ==
    Partition(rows, 1, limit, [to_process |-> <<>>, skipped |-> 0])

\* A variant of MissingColumn that looks for the two name columns only
MissingNameColumn(header) == \E k \in 1..2 : ~InSeq(header, RequiredCols[k])

\* reader.fieldnames is None for an empty file; "col not in None" raises.
MissingColumn(header) == \E k \in 1..Len(RequiredCols) : ~InSeq(header, RequiredCols[k])

BatchOutputFieldnames(header) ==
    IF InSeq(header, BATCH_COL) THEN header ELSE Append(header, BATCH_COL)

\* A variant of Batch that takes one company more than the batch size
BatchOneMore == SubSeq(to_process, batch_start + 1,
                       Min(batch_start + args.batch_size + 1, Len(to_process)))

\* to_process[batch_start:batch_start + batch_size], line 385
Batch == SubSeq(to_process, batch_start + 1,
                Min(batch_start + args.batch_size, Len(to_process)))

\* What analyze_batch hands to main for a batch:
\*   exc   it raised (messages.create is outside its try block)
\*   iter  the value can be iterated by zip (a list; a dict or a string
\*         iterate as non-objects); FALSE for a number, true/false or null
\*   elems the elements zip sees
ParsedOf(exc, iter, elems) == [exc |-> exc, iter |-> iter, elems |-> elems]
NoResults == ParsedOf(FALSE, TRUE, <<>>)

RECURSIVE SeqsUpTo(_, _)
SeqsUpTo(S, n) ==
    IF n = 0 THEN {<<>>}
    ELSE LET shorter == SeqsUpTo(S, n - 1)
         IN  shorter \cup {Append(s, e) : s \in {t \in shorter : Len(t) = n - 1}, e \in S}

\* What the LLM call can do for a batch of n companies: fail, answer text
\* that is not JSON, answer a JSON scalar, or answer a JSON array of any
\* length up to n + 1.
ResponseOf(kind, elems) == [kind |-> kind, elems |-> elems]
Responses(n) ==
    { ResponseOf("api_error", <<>>), ResponseOf("malformed", <<>>),
      ResponseOf("scalar", <<>>) }
    \cup { ResponseOf("array", s) : s \in SeqsUpTo(Elems, n + 1) }

\* analyze_batch, lines 266-286: json.loads of the answer is returned as it
\* is; only a parse error gives one {"domain": None} per company.
AnalyzeBatch(resp, n) ==
    CASE resp.kind = "api_error" -> ParsedOf(TRUE, TRUE, <<>>)
      [] resp.kind = "malformed" -> ParsedOf(FALSE, TRUE, [k \in 1..n |-> Obj(Null, "absent")])
      [] resp.kind = "scalar"    -> ParsedOf(FALSE, FALSE, <<>>)
      [] OTHER                   -> ParsedOf(FALSE, TRUE, resp.elems)

\* A variant of DomainOf that applies the per-row pipeline's confidence floor
DomainOfWithFloor(res) == IF res.conf = "low" THEN Null ELSE res.domain

\* result.get("domain") in main: the batched pipeline reads no other key
DomainOf(res) == res.domain

Decision(res) == IF Truthy(DomainOf(res)) THEN DomainOf(res) ELSE NOT_FOUND

\* zip(batch, results) stops at the shorter of the two
ZipLen(batch, res) == Min(Len(batch), Len(res.elems))

\* The first position at which the try block raises (0: it does not):
\* analyze_batch raised, zip refused a non-iterable, or result.get hit a
\* non-object.
FirstRaise(batch, res) ==
    IF res.exc \/ ~res.iter THEN 1
    ELSE LET bad == {j \in 1..ZipLen(batch, res) : res.elems[j].kind # "obj"}
         IN  IF bad = {} THEN 0 ELSE CHOOSE j \in bad : \A k \in bad : j <= k

\* Positions of the batch the try block recorded before leaving
Recorded(batch, res) ==
    IF FirstRaise(batch, res) = 0 THEN 1..ZipLen(batch, res)
    ELSE 1..(FirstRaise(batch, res) - 1)

\* A variant of RowsAfterBatch whose except branch leaves the rows as the
\* try block left them
RowsAfterBatchNoExcept(rows, batch, res) ==
    [r \in 1..Len(rows) |->
        IF \E j \in Recorded(batch, res) : batch[j].row = r
        THEN LET j == CHOOSE j \in Recorded(batch, res) : batch[j].row = r
             IN  [rows[r] EXCEPT !.out = Decision(res.elems[j])]
        ELSE rows[r]]

\* Lines 411-435: the rows, processed_rows and stats after the try/except.
RowsAfterBatch(rows, batch, res) ==
    [r \in 1..Len(rows) |->
        IF FirstRaise(batch, res) # 0 /\ \E j \in 1..Len(batch) : batch[j].row = r
        THEN [rows[r] EXCEPT !.out = NOT_FOUND]
        ELSE IF \E j \in Recorded(batch, res) : batch[j].row = r
        THEN LET j == CHOOSE j \in Recorded(batch, res) : batch[j].row = r
             IN  [rows[r] EXCEPT !.out = Decision(res.elems[j])]
        ELSE rows[r]]

ProcessedAfterBatch(proc, batch, res) ==
    LET done == IF FirstRaise(batch, res) # 0 THEN 1..Len(batch) ELSE Recorded(batch, res)
        idxs == {batch[j].index : j \in done}
    IN  [x \in (DOMAIN proc) \cup idxs |->
            IF x \in idxs THEN (CHOOSE c \in {batch[j] : j \in done} : c.index = x).row
            ELSE proc[x]]

StatsAfterBatch(st, batch, res) ==
    LET rec == Recorded(batch, res)
        hit == Cardinality({j \in rec : Truthy(DomainOf(res.elems[j]))})
    IN  [st EXCEPT !.found = @ + hit,
                   !.not_found = @ + (Cardinality(rec) - hit)
                                   + (IF FirstRaise(batch, res) # 0 THEN Len(batch) ELSE 0)]

\* A variant of TempOutput that writes the processed rows only
TempOutputProcessedOnly ==
    LET idxs == SelectSeq(SeqRange(1, Len(input_rows)),
                          LAMBDA x : x \in DOMAIN processed_rows)
    IN  [k \in 1..Len(idxs) |-> input_rows[processed_rows[idxs[k]]]]

\* A variant of TempOutput that writes the untouched rows first and the
\* processed rows after them
TempOutputSkippedFirst ==
    LET all  == SeqRange(1, Len(input_rows))
        skip == SelectSeq(all, LAMBDA x : x \notin DOMAIN processed_rows)
        proc == SelectSeq(all, LAMBDA x : x \in DOMAIN processed_rows)
    IN  [k \in 1..Len(all) |-> input_rows[(skip \o proc)[k]]]

\* Lines 438-443 and 452-458: the rows a write of the batched pipeline holds
TempOutput ==
    [idx \in 1..Len(input_rows) |->
        IF idx \in DOMAIN processed_rows THEN input_rows[processed_rows[idx]]
        ELSE input_rows[idx]]

\* ------------------------------------------------------------ process state
\* No function is examined on its own while main() runs
NoCall == [fn |-> "none"]

Terminal == {"done", "exit1", "crashed", "killed"}

\* The memory of a process that has not read anything yet
FreshMemory ==
    /\ wopen = FALSE
    /\ fieldnames = <<>>
    /\ output_fieldnames = <<>>
    /\ input_rows = <<>>
    /\ to_process = <<>>
    /\ processed_rows = <<>>
    /\ batch_start = 0
    /\ results = NoResults
    /\ raised = FALSE
    /\ output_rows = <<>>
    /\ i = 0
    /\ count = 0
    /\ result = NoResult
    /\ stats = ZeroStats
    /\ searched = 0
    /\ llm_calls = 0
    /\ ckpts = 0
    /\ input0 = Absent

FreshMemoryNext ==
    /\ wopen' = FALSE
    /\ fieldnames' = <<>>
    /\ output_fieldnames' = <<>>
    /\ input_rows' = <<>>
    /\ to_process' = <<>>
    /\ processed_rows' = <<>>
    /\ batch_start' = 0
    /\ results' = NoResults
    /\ raised' = FALSE
    /\ output_rows' = <<>>
    /\ i' = 0
    /\ count' = 0
    /\ result' = NoResult
    /\ stats' = ZeroStats
    /\ searched' = 0
    /\ llm_calls' = 0
    /\ ckpts' = 0
    /\ input0' = Absent

InitialTables(col) ==
    { FileOf(IF \E k \in 1..NumRows : rows[k].out # "" THEN Append(RequiredCols, col)
             ELSE RequiredCols, rows) :
        rows \in {r \in [1..NumRows -> UNION {RowKinds(k) : k \in 1..NumRows}] :
                     \A k \in 1..NumRows : r[k] \in RowKinds(k)} }

\* Tables whose header lacks one of the required columns
MisconfiguredTables ==
    { FileOf(SelectSeq(RequiredCols, LAMBDA c : c # RequiredCols[m]),
             [k \in 1..NumRows |-> RowOf(k, "acme", "Acme LLC", "")]) :
        m \in 1..Len(RequiredCols) }

Init ==
    /\ variant \in {"batch", "lite"}
    /\ args \in [input : {"in.csv"}, output : Paths, limit : 0..MaxLimit,
                 batch_size : 1..MaxBatch]
    /\ variant = "lite" => args.batch_size = 1
    /\ \E t \in InitialTables(OutCol) \cup MisconfiguredTables \cup {Absent} :
          fs = [p \in Paths |-> IF p = "in.csv" THEN t ELSE Absent]
    /\ pc = "start"
    /\ afterDone = FALSE
    /\ FreshMemory
    /\ call = NoCall

\* Lines 310-369: read the table, validate the columns, partition the rows.
BatchRead ==
    /\ variant = "batch" /\ pc = "start"
    /\ LET f == fs[args.input]
           part == ToProcess(f.rows, args.limit)
       IN  IF ~f.exists \/ (f.header # <<>> /\ MissingColumn(f.header))
           THEN /\ pc' = "exit1"
                /\ UNCHANGED <<fieldnames, output_fieldnames, input_rows,
                               to_process, stats, input0>>
           ELSE IF f.header = <<>>
           THEN /\ pc' = "crashed"
                /\ UNCHANGED <<fieldnames, output_fieldnames, input_rows,
                               to_process, stats, input0>>
           ELSE /\ fieldnames' = f.header
                /\ output_fieldnames' = BatchOutputFieldnames(f.header)
                /\ input_rows' = f.rows
                /\ input0' = f
                /\ to_process' = part.to_process
                /\ stats' = [stats EXCEPT !.skipped = part.skipped]
                /\ pc' = IF part.to_process = <<>> THEN "final" ELSE "search"
    /\ UNCHANGED <<call, variant, args, fs, wopen, processed_rows, batch_start,
                   results, raised, output_rows, i, count, result, searched,
                   llm_calls, ckpts, afterDone>>

\* Lines 392-407: one search per company of the batch. The search functions
\* swallow their own errors, so this loop runs to its end.
BatchSearch ==
    /\ variant = "batch" /\ pc = "search"
    /\ searched' = searched + Len(Batch)
    /\ results' = NoResults
    /\ raised' = FALSE
    /\ pc' = "arbitrate"
    /\ UNCHANGED <<call, variant, args, fs, wopen, fieldnames, output_fieldnames,
                   input_rows, to_process, processed_rows, batch_start,
                   output_rows, i, count, result, stats, llm_calls, ckpts,
                   input0, afterDone>>

\* Lines 409-435: the LLM call, the parse, and the try/except that records
\* the decisions of the batch.
BatchArbitrate ==
    /\ variant = "batch" /\ pc = "arbitrate"
    /\ \E resp \in Responses(Len(Batch)) :
          LET res == AnalyzeBatch(resp, Len(Batch))
          IN  /\ results' = res
              /\ raised' = (FirstRaise(Batch, res) # 0)
              /\ input_rows' = RowsAfterBatch(input_rows, Batch, res)
              /\ processed_rows' = ProcessedAfterBatch(processed_rows, Batch, res)
              /\ stats' = StatsAfterBatch(stats, Batch, res)
    /\ llm_calls' = llm_calls + 1
    /\ pc' = "checkpoint"
    /\ UNCHANGED <<call, variant, args, fs, wopen, fieldnames, output_fieldnames,
                   to_process, batch_start, output_rows, i, count, result,
                   searched, ckpts, input0, afterDone>>

\* ----------------------------------------------- enrich_sellers_lite.py main
\* Line 358: the output column is appended whether or not the header has it
LiteOutputFieldnames(header) == Append(header, LITE_COL)

\* What process_seller can come back with for one row: a search request
\* fails (google_search lets it through), the LLM call fails, the answer
\* is not JSON, or the answer is JSON: an object or something else.
LiteResponses ==
    { ResponseOf("search_error", <<>>), ResponseOf("api_error", <<>>),
      ResponseOf("malformed", <<>>) }
    \cup { ResponseOf("json", <<e>>) : e \in Elems }

\* A variant of RejectLowConfidence that keeps the domain
KeepLowConfidence(res) == res

\* Lines 267-270: a low-confidence answer loses its domain
RejectLowConfidence(res) ==
    IF res.conf = "low" THEN [res EXCEPT !.domain = Null] ELSE res

\* analyze_with_validation, lines 251-282, and the calls before it in
\* process_seller. kind "raise": an exception reaches main.
AnalyzeWithValidation(resp) ==
    CASE resp.kind \in {"search_error", "api_error"} -> [NoResult EXCEPT !.kind = "raise"]
      [] resp.kind = "malformed" -> Obj(Null, "none")
      [] resp.elems[1].kind # "obj" -> [NoResult EXCEPT !.kind = "raise"]
      [] OTHER -> RejectLowConfidence(resp.elems[1])

\* Lines 403-417: the value main writes in the row's output column
LiteDecision(res) ==
    IF res.kind # "raise" /\ Truthy(res.domain) THEN res.domain ELSE NOT_FOUND

\* The rows a write of the per-row pipeline holds: output_rows, as appended
LiteOutput == [k \in 1..Len(output_rows) |-> input_rows[output_rows[k]]]

\* Lines 333-363
LiteRead ==
    /\ variant = "lite" /\ pc = "start"
    /\ LET f == fs[args.input]
       IN  IF ~f.exists \/ (f.header # <<>> /\ MissingColumn(f.header))
           THEN /\ pc' = "exit1"
                /\ UNCHANGED <<fieldnames, output_fieldnames, input_rows, input0>>
           ELSE IF f.header = <<>>
           THEN /\ pc' = "crashed"
                /\ UNCHANGED <<fieldnames, output_fieldnames, input_rows, input0>>
           ELSE /\ fieldnames' = f.header
                /\ output_fieldnames' = LiteOutputFieldnames(f.header)
                /\ input_rows' = f.rows
                /\ input0' = f
                /\ pc' = "loop"
    /\ UNCHANGED <<call, variant, args, fs, wopen, to_process, processed_rows,
                   batch_start, results, raised, output_rows, i, count, result,
                   stats, searched, llm_calls, ckpts, afterDone>>

LiteRow == input_rows[i + 1]
LiteSkips(row) == (row.business = "" /\ row.seller = "") \/ Strip(row.out) # ""
LiteAtLimit == args.limit # 0 /\ count >= args.limit

\* Lines 369-381: a row with no name, or already resolved
LiteSkip ==
    /\ variant = "lite" /\ pc = "loop" /\ i < Len(input_rows)
    /\ LiteSkips(LiteRow)
    /\ stats' = [stats EXCEPT !.skipped = @ + 1]
    /\ output_rows' = Append(output_rows, i + 1)
    /\ i' = i + 1
    /\ UNCHANGED <<call, variant, args, fs, pc, wopen, fieldnames, output_fieldnames,
                   input_rows, to_process, processed_rows, batch_start, results,
                   raised, count, result, searched, llm_calls, ckpts, input0,
                   afterDone>>

\* Lines 383-388: the limit is reached; the remaining rows are appended
LiteLimit ==
    /\ variant = "lite" /\ pc = "loop" /\ i < Len(input_rows)
    /\ ~LiteSkips(LiteRow) /\ LiteAtLimit
    /\ output_rows' = output_rows \o SeqRange(i + 1, Len(input_rows))
    /\ pc' = "final"
    /\ UNCHANGED <<call, variant, args, fs, wopen, fieldnames, output_fieldnames,
                   input_rows, to_process, processed_rows, batch_start, results,
                   raised, i, count, result, stats, searched, llm_calls, ckpts,
                   input0, afterDone>>

\* Lines 390-419: process one row and record its decision
LiteProcess ==
    /\ variant = "lite" /\ pc = "loop" /\ i < Len(input_rows)
    /\ ~LiteSkips(LiteRow) /\ ~LiteAtLimit
    /\ \E resp \in LiteResponses :
          LET res == AnalyzeWithValidation(resp)
          IN  /\ result' = res
              /\ input_rows' = [input_rows EXCEPT ![i + 1].out = LiteDecision(res)]
              /\ stats' = IF LiteDecision(res) = NOT_FOUND
                          THEN [stats EXCEPT !.not_found = @ + 1]
                          ELSE [stats EXCEPT !.found = @ + 1]
              /\ llm_calls' = IF resp.kind = "search_error" THEN llm_calls
                              ELSE llm_calls + 1
    /\ searched' = searched + 1
    /\ output_rows' = Append(output_rows, i + 1)
    /\ pc' = "lsave"
    /\ UNCHANGED <<call, variant, args, fs, wopen, fieldnames, output_fieldnames,
                   to_process, processed_rows, batch_start, results, raised, i,
                   count, ckpts, input0, afterDone>>

\* The for loop is exhausted
LiteLoopEnd ==
    /\ variant = "lite" /\ pc = "loop" /\ i >= Len(input_rows)
    /\ pc' = "final"
    /\ UNCHANGED <<call, variant, args, fs, wopen, fieldnames, output_fieldnames,
                   input_rows, to_process, processed_rows, batch_start, results,
                   raised, output_rows, i, count, result, stats, searched,
                   llm_calls, ckpts, input0, afterDone>>

\* ------------------------------------------------------------------ writes
\* with open(output_path, "w") ...: writer.writeheader(); writer.writerows()
\* batch: lines 445-448 (checkpoint) and 461-464 (final)
\* lite:  lines 422-425 (after a row) and 430-433 (final)
\* A variant of WriteSites that also writes before the arbitration of a batch
WriteSitesMidBatch == {"arbitrate", "checkpoint", "lsave", "final"}

WriteSites == {"checkpoint", "lsave", "final"}

PendingRows == IF variant = "batch" THEN TempOutput ELSE LiteOutput
PendingFile == FileOf(output_fieldnames, PendingRows)

\* open(path, "w") truncates the file before anything is written
WriteOpen ==
    /\ pc \in WriteSites /\ ~wopen
    /\ wopen' = TRUE
    /\ fs' = [fs EXCEPT ![args.output] = FileOf(<<>>, <<>>)]
    /\ UNCHANGED <<call, variant, args, pc, fieldnames, output_fieldnames, input_rows,
                   to_process, processed_rows, batch_start, results, raised,
                   output_rows, i, count, result, stats, searched, llm_calls,
                   ckpts, input0, afterDone>>

\* The buffer is flushed while rows are still being written: the header
\* line, then the next row, reaches the disk.
WriteFlush ==
    /\ pc \in WriteSites /\ wopen
    /\ fs[args.output] # PendingFile
    /\ LET f == fs[args.output]
       IN  fs' = [fs EXCEPT ![args.output] =
                    IF f.header = <<>> THEN FileOf(output_fieldnames, <<>>)
                    ELSE FileOf(f.header, Append(f.rows, PendingRows[Len(f.rows) + 1]))]
    /\ UNCHANGED <<call, variant, args, pc, wopen, fieldnames, output_fieldnames,
                   input_rows, to_process, processed_rows, batch_start, results,
                   raised, output_rows, i, count, result, stats, searched,
                   llm_calls, ckpts, input0, afterDone>>

\* Leaving the with block closes the file: everything is on disk. The loop
\* then goes on: next batch, next row, or the end of main.
WriteClose ==
    /\ pc \in WriteSites /\ wopen
    /\ wopen' = FALSE
    /\ fs' = [fs EXCEPT ![args.output] = PendingFile]
    /\ ckpts' = ckpts + 1
    /\ CASE pc = "checkpoint" ->
              /\ batch_start' = batch_start + args.batch_size
              /\ pc' = IF batch_start + args.batch_size < Len(to_process)
                       THEN "search" ELSE "final"
              /\ UNCHANGED <<i, count>>
         [] pc = "lsave" ->
              /\ count' = count + 1
              /\ i' = i + 1
              /\ pc' = "loop"
              /\ UNCHANGED batch_start
         [] OTHER ->
              /\ pc' = "done"
              /\ UNCHANGED <<batch_start, i, count>>
    /\ UNCHANGED <<call, variant, args, fieldnames, output_fieldnames, input_rows,
                   to_process, processed_rows, results, raised, output_rows,
                   result, stats, searched, llm_calls, input0, afterDone>>

\* ------------------------------------------------------- kill and run again
\* The process is terminated: its memory, and what was still buffered, is
\* gone; the files stay as they are.
Kill ==
    /\ pc \notin Terminal
    /\ pc' = "killed"
    /\ FreshMemoryNext
    /\ UNCHANGED <<call, variant, args, fs, afterDone>>

\* The script is invoked again on the record store the last run left: its
\* output file when there is one.
Restart ==
    /\ pc \in Terminal
    /\ fs[args.output].exists
    /\ Count(fs[args.output].header, OutCol) <= MaxDupCols
    /\ args' = [args EXCEPT !.input = args.output]
    /\ pc' = "start"
    /\ afterDone' = (pc = "done")
    /\ FreshMemoryNext
    /\ UNCHANGED <<call, variant, fs>>

Next ==
    \/ BatchRead \/ BatchSearch \/ BatchArbitrate
    \/ LiteRead \/ LiteSkip \/ LiteLimit \/ LiteProcess \/ LiteLoopEnd
    \/ WriteOpen \/ WriteFlush \/ WriteClose
    \/ Kill \/ Restart

Spec == Init /\ [][Next]_vars

\* ================================================================== claims
OutFile == fs[args.output]
BatchRun == variant = "batch"
LiteRun == variant = "lite"
AtRest == ~wopen

\* C1: resume idempotence of the batched pipeline. A run started on the
\* output of a run that finished without --limit puts no row in to_process,
\* issues no search and no LLM call, and ends with an output file equal to
\* the table it read.
C1_BatchResumeIdempotent ==
    (BatchRun /\ afterDone /\ args.limit = 0 /\ pc # "start")
        => /\ to_process = <<>>
           /\ searched = 0
           /\ llm_calls = 0
           /\ (pc = "done" => OutFile = input0)

\* C2: resume idempotence of the per-row pipeline. A run started on the
\* output of a run that finished without --limit processes no row and ends
\* with an output file that has the header and the rows of the table it read.
C2_LiteResumeIdempotent ==
    (LiteRun /\ afterDone /\ args.limit = 0 /\ pc # "start")
        => /\ count = 0
           /\ searched = 0
           /\ llm_calls = 0
           /\ (pc = "done" => OutFile = input0)

\* C3: crash safety of the batched pipeline. Between the checkpoint of batch
\* k and the start of the next write, the file holds a decision for every
\* entity of batches 1..k and the data as read for every other row, and the
\* partition a restart computes from that file is exactly the entities after
\* batch k.
BatchesDone == Min(ckpts * args.batch_size, Len(to_process))
C3_CrashSafety ==
    (BatchRun /\ args.limit = 0 /\ ckpts >= 1 /\ AtRest
       /\ pc \in {"search", "arbitrate", "checkpoint", "final"})
        => /\ \A j \in 1..BatchesDone :
                 OutFile.rows[to_process[j].index].out # ""
           /\ \A r \in 1..Len(input0.rows) :
                 (\A j \in 1..BatchesDone : to_process[j].index # r)
                     => OutFile.rows[r] = input0.rows[r]
           /\ ToProcess(OutFile.rows, 0).to_process
                 = SubSeq(to_process, BatchesDone + 1, Len(to_process))

\* C4: atomic checkpoint write. Every step leaves the output file as it was
\* or replaces it by the complete snapshot being written; the file is never
\* empty or a part of the rows.
C4_AtomicWrite ==
    [][fs'[args.output] = fs[args.output] \/ fs'[args.output] = PendingFile]_vars

\* C5: complete snapshot after every batch. Once the batched pipeline has
\* completed a write, the file at rest holds the header with the output
\* column and exactly one row for each input row, in the input's order.
C5_CompleteSnapshot ==
    (BatchRun /\ ckpts >= 1 /\ AtRest)
        => /\ OutFile.exists
           /\ OutFile.header = output_fieldnames
           /\ InSeq(OutFile.header, BATCH_COL)
           /\ Len(OutFile.rows) = Len(input0.rows)
           /\ \A r \in 1..Len(input0.rows) : OutFile.rows[r].id = input0.rows[r].id

\* C5 witness: after the first checkpoint of a run with more batches to
\* come, the file holds a resolved row and a row that is still unresolved.
C5_Witness ==
    /\ BatchRun /\ pc = "search" /\ ckpts = 1 /\ AtRest
    /\ \E r \in 1..Len(OutFile.rows) : OutFile.rows[r].out = "b.com"
    /\ \E r \in 1..Len(OutFile.rows) :
          OutFile.rows[r].out = "" /\ OutFile.rows[r].seller # ""

\* C6: complete snapshot in the per-row pipeline. Once a write has been
\* completed, the file at rest holds every input row, those after the row
\* just processed included.
C6_LiteCompleteSnapshot ==
    (LiteRun /\ ckpts >= 1 /\ AtRest)
        => /\ OutFile.exists
           /\ Len(OutFile.rows) = Len(input0.rows)

\* C7: batch misalignment safety. When the array parsed from the answer has
\* a length other than the batch's, every entity of the batch is recorded as
\* NOT FOUND.
C7_MisalignedAllNotFound ==
    (BatchRun /\ pc = "checkpoint" /\ ~results.exc /\ results.iter
       /\ Len(results.elems) # Len(Batch))
        => \A j \in 1..Len(Batch) : input_rows[Batch[j].row].out = NOT_FOUND

\* C8: order preservation. In every file, at every moment, the row at
\* position k is input row k, and it holds either what was read for row k
\* or row k's own decision as recorded in memory.
C8_OrderPreserved ==
    \A p \in Paths :
        \A k \in 1..Len(fs[p].rows) :
            /\ fs[p].rows[k].id = k
            /\ (input_rows # <<>> /\ p = args.output)
                   => fs[p].rows[k] \in {input0.rows[k], input_rows[k]}

\* C8 witness: a finished run in which row 1 was skipped and row 2 was given
\* a domain: the file has both at their input positions.
C8_Witness ==
    /\ pc = "done" /\ ckpts >= 2
    /\ Len(OutFile.rows) = NumRows
    /\ OutFile.rows[1].seller = "" /\ OutFile.rows[1].id = 1
    /\ OutFile.rows[NumRows].out = "b.com" /\ input0.rows[NumRows].out = ""

\* C9: confidence floor of the per-row pipeline. A parsed answer with
\* confidence low comes back from analyze_with_validation with domain null,
\* and the row's output column is NOT FOUND.
C9_LiteConfidenceFloor ==
    (LiteRun /\ pc = "lsave" /\ result.kind = "obj" /\ result.conf = "low")
        => /\ result.domain = Null
           /\ input_rows[i + 1].out = NOT_FOUND

\* C9 witness: a row has just been processed with a low-confidence answer
\* (the only such answer carries the domain b.com) and is marked NOT FOUND.
C9_Witness ==
    /\ LiteRun /\ pc = "lsave" /\ result.kind = "obj" /\ result.conf = "low"
    /\ Obj("b.com", "low") \in Elems
    /\ \A e \in Elems : e.conf = "low" => Truthy(e.domain)
    /\ input_rows[i + 1].out = NOT_FOUND /\ stats.not_found >= 1

SearchedNow ==
    IF variant = "batch" THEN {Batch[j].index : j \in 1..Len(Batch)} ELSE {i + 1}
C11_TerminalRows ==
    [][/\ (~wopen /\ wopen')
           => \A k \in 1..Len(OutFile.rows) :
                 OutFile.rows[k].out # ""
                     => /\ k <= Len(PendingRows)
                        /\ PendingRows[k].out = OutFile.rows[k].out
       /\ (searched' > searched)
           => \A k \in SearchedNow :
                 k <= Len(OutFile.rows) => OutFile.rows[k].out = ""]_vars

\* ======================================================= functions on their own
\* The specifications below examine one function at a time: main() is not
\* running, and its variables stay as they are.
mainVars == <<variant, args, fs, pc, wopen, fieldnames, output_fieldnames,
              input_rows, to_process, processed_rows, batch_start, results,
              raised, output_rows, i, count, result, stats, searched,
              llm_calls, ckpts, input0, afterDone>>

NotRunning ==
    /\ variant = "batch"
    /\ args = [input |-> "in.csv", output |-> "out.csv", limit |-> 0,
               batch_size |-> 1]
    /\ fs = [p \in Paths |-> Absent]
    /\ pc = "idle"
    /\ afterDone = FALSE
    /\ FreshMemory

\* ------------------------------------------------------- the search backends
\* What one HTTP request to a search provider can come to
Outcomes == {"ok",            \* 2xx with a JSON body
             "rate_limited",  \* status 429
             "transport",     \* requests.get raises
             "status",        \* another non-2xx status: raise_for_status raises
             "bad_body"}      \* response.json() raises

RATE_LIMIT_WAIT == 10    \* wait_time = (attempt + 1) * 10
ERROR_WAIT == 2          \* time.sleep(2) before another attempt

\* A call of a search backend: requests issued so far with their outcomes,
\* the pauses slept, and how it ended (state "loop": still inside the call).
SearchCall(fn, max_retries) ==
    [fn |-> fn, max_retries |-> max_retries, attempt |-> 0, requests |-> 0,
     outcomes |-> <<>>, pauses |-> <<>>, state |-> "loop", ret |-> "none"]

Requested(c, o) ==
    [c EXCEPT !.requests = @ + 1, !.outcomes = Append(@, o)]
Returns(c, ret) == [c EXCEPT !.state = "returned", !.ret = ret]
Raises(c) == [c EXCEPT !.state = "raised"]
NextAttempt(c, pause) ==
    [c EXCEPT !.attempt = @ + 1, !.pauses = Append(@, pause)]

\* A variant of SerpapiAttempt that tries a rate-limited request again
\* without counting the attempt
SerpapiAttemptUncounted(c, o) ==
    IF o = "rate_limited"
    THEN [Requested(c, o) EXCEPT !.pauses = Append(@, RATE_LIMIT_WAIT)]
    ELSE IF o = "ok" THEN Returns(Requested(c, o), "hits")
    ELSE IF c.attempt + 1 < c.max_retries
    THEN NextAttempt(Requested(c, o), ERROR_WAIT)
    ELSE Returns(Requested(c, o), "empty")

\* A variant of SerpapiAttempt that waits the same time after every
\* rate-limited attempt
SerpapiAttemptFlatWait(c, o) ==
    IF o = "rate_limited"
    THEN NextAttempt(Requested(c, o), RATE_LIMIT_WAIT)
    ELSE IF o = "ok" THEN Returns(Requested(c, o), "hits")
    ELSE IF c.attempt + 1 < c.max_retries
    THEN NextAttempt(Requested(c, o), ERROR_WAIT)
    ELSE Returns(Requested(c, o), "empty")

\* serpapi_search, lines 98-118: one pass of the for loop
SerpapiAttempt(c, o) ==
    IF o = "rate_limited"
    THEN NextAttempt(Requested(c, o), (c.attempt + 1) * RATE_LIMIT_WAIT)
    ELSE IF o = "ok" THEN Returns(Requested(c, o), "hits")
    ELSE IF c.attempt + 1 < c.max_retries
    THEN NextAttempt(Requested(c, o), ERROR_WAIT)
    ELSE Returns(Requested(c, o), "empty")

\* google_cse_search, lines 133-150: one request inside try/except
GoogleCseRequest(c, o) ==
    IF o = "ok" THEN Returns(Requested(c, o), "hits")
    ELSE Returns(Requested(c, o), "empty")

\* google_search of enrich_sellers_lite.py, lines 108-112: one request, no
\* try: what requests.get, raise_for_status or json() raise leaves the call
GoogleSearchRequest(c, o) ==
    IF o = "ok" THEN Returns(Requested(c, o), "hits")
    ELSE Raises(Requested(c, o))

SearchInit ==
    /\ NotRunning
    /\ call \in {SearchCall("serpapi_search", m) : m \in 0..MaxRetries}
                \cup {SearchCall("google_cse_search", 0),
                      SearchCall("google_search", 0)}

SerpapiSearchLoop ==
    /\ call.fn = "serpapi_search" /\ call.state = "loop"
    /\ call.attempt < call.max_retries
    /\ \E o \in Outcomes : call' = SerpapiAttempt(call, o)
    /\ UNCHANGED mainVars

\* Lines 120-121: the loop ran out of attempts
SerpapiSearchExhausted ==
    /\ call.fn = "serpapi_search" /\ call.state = "loop"
    /\ call.attempt >= call.max_retries
    /\ call' = Returns(call, "empty")
    /\ UNCHANGED mainVars

GoogleCseSearch ==
    /\ call.fn = "google_cse_search" /\ call.state = "loop"
    /\ \E o \in Outcomes : call' = GoogleCseRequest(call, o)
    /\ UNCHANGED mainVars

GoogleSearch ==
    /\ call.fn = "google_search" /\ call.state = "loop"
    /\ \E o \in Outcomes : call' = GoogleSearchRequest(call, o)
    /\ UNCHANGED mainVars

SearchNext ==
    \/ SerpapiSearchLoop \/ SerpapiSearchExhausted
    \/ GoogleCseSearch \/ GoogleSearch

\* A call that has started runs until it returns or raises
SearchSpec == SearchInit /\ [][SearchNext]_vars /\ WF_vars(SearchNext)

\* ------------------------------------------------------------------ strings
\* A string is the sequence of its tokens: a token is a maximal run of
\* letters, digits and hyphens, or one character of anything else, so
\* "www.Acme.com" is <<"www", ".", "Acme", ".", "com">>. The operators below
\* do to token sequences what the Python string operations do to strings.
Punctuation == {" ", "#", ".", "/", ":", "=", "?", "@", "[", "]", "\""}
IsWord(t) == t \notin Punctuation
\* the words of the model that are all digits
DigitWords == {"1", "443", "8080"}
\* the words of the model that are two or three lower-case letters: [a-z]{2,3}
ShortLowerWords ==
    {"aa", "bbb", "bio", "co", "com", "de", "dnb", "dp", "ee", "in",
     "me", "my", "org", "top", "uk", "us", "web", "wix", "www"}
\* the words of the model that are six or more of a-f0-9: [a-f0-9]{6,}
HexWords == {"abc123def"}

\* str.lower(), word by word (the other words of the model are lower-case)
LowerToken(t) ==
    CASE t = "ACME" -> "acme"
      [] t = "Amazon" -> "amazon"
      [] t = "B01" -> "b01"
      [] t = "COM" -> "com"
      [] t = "SHOP" -> "shop"
      [] t = "Acme" -> "acme"
      [] t = "LLC" -> "llc"
      [] OTHER -> t
LowerText(s) == [k \in 1..Len(s) |-> LowerToken(s[k])]

\* str.strip()
RECURSIVE StripText(_)
StripText(s) ==
    IF s = <<>> THEN s
    ELSE IF Head(s) = " " THEN StripText(Tail(s))
    ELSE IF s[Len(s)] = " " THEN StripText(SubSeq(s, 1, Len(s) - 1))
    ELSE s

StartsWith(s, pre) == Len(s) >= Len(pre) /\ SubSeq(s, 1, Len(pre)) = pre
EndsWith(s, suf) ==
    Len(s) >= Len(suf) /\ SubSeq(s, Len(s) - Len(suf) + 1, Len(s)) = suf
\* the least position of s that holds a token of S; 0 when there is none
FirstOf(s, S) ==
    IF \E k \in 1..Len(s) : s[k] \in S
    THEN CHOOSE k \in 1..Len(s) : s[k] \in S /\ \A j \in 1..(k - 1) : s[j] \notin S
    ELSE 0

\* Python None where a string is expected, and a link that is not a string
None == <<"<None>">>
NotAString == <<"<5>">>
Falsy(s) == s = None \/ s = <<>>

\* ---------------------------------------------------------------- blacklists
\* BLACKLIST_DOMAINS: the same 43 hosts in both files
BLACKLIST_DOMAINS ==
    { <<"amazon", ".", "com">>, <<"walmart", ".", "com">>,
      <<"ebay", ".", "com">>, <<"etsy", ".", "com">>,
      <<"alibaba", ".", "com">>, <<"aliexpress", ".", "com">>,
      <<"target", ".", "com">>, <<"costco", ".", "com">>,
      <<"bestbuy", ".", "com">>, <<"homedepot", ".", "com">>,
      <<"lowes", ".", "com">>, <<"wayfair", ".", "com">>,
      <<"about", ".", "me">>, <<"linktree", ".", "com">>,
      <<"linktr", ".", "ee">>, <<"carrd", ".", "co">>,
      <<"bio", ".", "link">>, <<"aa", ".", "com">>,
      <<"yeti", ".", "com">>, <<"zones", ".", "com">>,
      <<"apple", ".", "com">>, <<"google", ".", "com">>,
      <<"microsoft", ".", "com">>, <<"facebook", ".", "com">>,
      <<"meta", ".", "com">>, <<"dnb", ".", "com">>,
      <<"bloomberg", ".", "com">>, <<"crunchbase", ".", "com">>,
      <<"zoominfo", ".", "com">>, <<"linkedin", ".", "com">>,
      <<"yellowpages", ".", "com">>, <<"yelp", ".", "com">>,
      <<"bbb", ".", "org">>, <<"abnewswire", ".", "com">>,
      <<"prnewswire", ".", "com">>, <<"businesswire", ".", "com">>,
      <<"globenewswire", ".", "com">>, <<"shopify", ".", "com">>,
      <<"bigcommerce", ".", "com">>, <<"wix", ".", "com">>,
      <<"squarespace", ".", "com">>, <<"wordpress", ".", "com">>,
      <<"weebly", ".", "com">> }

\* (^|\.) in front of position k: the start of the host, or a dot
AtLabelStart(s, k) == k = 1 \/ s[k - 1] = "."

\* \.<platform>\.com$
SubdomainOf(s, platform) == EndsWith(s, <<".", platform, ".", "com">>)
\* (^|\.)<name>\.com$
HostOrSubdomainOf(s, name) ==
    EndsWith(s, <<name, ".", "com">>) /\ AtLabelStart(s, Len(s) - 2)
\* (^|\.)<name>\.
LabelThenDot(s, name) ==
    \E k \in 1..(Len(s) - 1) : s[k] = name /\ s[k + 1] = "." /\ AtLabelStart(s, k)

\* BLACKLIST_PATTERNS of enrich_sellers_lite.py (lines 62-70), which are
\* also the first seven of enrich_sellers.py (lines 55-62): re.search of
\* each pattern on the host
MatchesPlatformPattern(s) ==
    \/ SubdomainOf(s, "myshopify")
    \/ SubdomainOf(s, "wordpress")
    \/ SubdomainOf(s, "wixsite")
    \/ SubdomainOf(s, "blogspot")
    \/ SubdomainOf(s, "tumblr")
    \/ (Len(s) = 5 /\ s[1] \in HexWords /\ SubdomainOf(s, "myshopify"))
    \/ SubdomainOf(s, "godaddysites")

\* The six patterns enrich_sellers.py has on top of these (lines 63-68)
MatchesMarketplacePattern(s) ==
    \/ HostOrSubdomainOf(s, "amazon")
    \/ (/\ Len(s) >= 3
        /\ s[Len(s) - 2] = "amazon" /\ s[Len(s) - 1] = "."
        /\ s[Len(s)] \in ShortLowerWords
        /\ AtLabelStart(s, Len(s) - 2))
    \/ LabelThenDot(s, "ubuy")
    \/ LabelThenDot(s, "archive")
    \/ HostOrSubdomainOf(s, "alibaba")
    \/ LabelThenDot(s, "aliexpress")

MatchesPattern(file, s) ==
    MatchesPlatformPattern(s) \/ (file = "batch" /\ MatchesMarketplacePattern(s))

\* A variant of Normalise that leaves the case as it is
NormaliseCaseKept(domain) == StripText(domain)

\* domain.lower().strip()
Normalise(domain) == StripText(LowerText(domain))

\* is_blacklisted_domain: enrich_sellers.py lines 72-81,
\* enrich_sellers_lite.py lines 73-89
IsBlacklistedDomain(file, domain) ==
    IF Falsy(domain) THEN TRUE
    ELSE \/ Normalise(domain) \in BLACKLIST_DOMAINS
         \/ MatchesPattern(file, Normalise(domain))

\* ------------------------------------------------------------ extract_domain
\* urlparse(url).netloc. A scheme is what stands before the first colon
\* when that is a letter-led run of letters, digits and dots; the host part
\* follows "//" and ends before the first "/", "?" or "#". A "[" without
\* "]" makes urlparse raise ValueError.
SchemeLength(url) ==
    LET k == FirstOf(url, {":"})
    IN  IF /\ k > 1
           /\ url[1] \notin DigitWords
           /\ \A j \in 1..(k - 1) : IsWord(url[j]) \/ url[j] = "."
        THEN k ELSE 0
AfterScheme(url) == SubSeq(url, SchemeLength(url) + 1, Len(url))
Netloc(url) ==
    LET rest == AfterScheme(url)
    IN  IF StartsWith(rest, <<"/", "/">>)
        THEN LET tail == SubSeq(rest, 3, Len(rest))
                 stop == FirstOf(tail, {"/", "?", "#"})
             IN  IF stop = 0 THEN tail ELSE SubSeq(tail, 1, stop - 1)
        ELSE <<>>
UrlparseRaises(url) ==
    url = NotAString
    \/ (\E k \in 1..Len(Netloc(url)) : Netloc(url)[k] = "[")
         # (\E k \in 1..Len(Netloc(url)) : Netloc(url)[k] = "]")

\* extract_domain: enrich_sellers.py lines 189-197, enrich_sellers_lite.py
\* lines 159-169
ExtractDomain(url) ==
    IF UrlparseRaises(url) THEN None
    ELSE LET domain == LowerText(Netloc(url))
         IN  IF StartsWith(domain, <<"www", ".">>)
             THEN SubSeq(domain, 3, Len(domain)) ELSE domain

\* ---------------------------------------------- the two functions, called
SampleDomains ==
    { <<>>, <<" ">>,
      <<"amazon", ".", "com">>, <<"Amazon", ".", "COM">>,
      <<" ", "amazon", ".", "com", " ">>, <<"www", ".", "amazon", ".", "com">>,
      <<"smile", ".", "amazon", ".", "com">>, <<"notamazon", ".", "com">>,
      <<"my-amazon", ".", "com">>, <<"user", "@", "amazon", ".", "com">>,
      <<"amazon", ".", "com", ":", "443">>, <<"amazon", ".", "de">>,
      <<"amazon", ".", "co", ".", "uk">>, <<"amazon", ".", "shop">>,
      <<"mystorefront", ".", "com">>, <<"acme", ".", "com">>,
      <<"shopify", ".", "com">>, <<"myshopify", ".", "com">>,
      <<"linktr", ".", "ee">>, <<"www", ".", "linkedin", ".", "com">>,
      <<"ubuy", ".", "co", ".", "in">>, <<"my", ".", "ubuy", ".", "com">>,
      <<"ubuy">>, <<"archive", ".", "org">>,
      <<"web", ".", "archive", ".", "org">>, <<"acme", ".", "alibaba", ".", "com">>,
      <<"aliexpress", ".", "us">>, <<"myaliexpress", ".", "com">>,
      <<"shop", ".", "myshopify", ".", "com", ".", "evil", ".", "com">> }
Platforms == {"myshopify", "wordpress", "wixsite", "blogspot", "tumblr", "godaddysites"}
SubLabels == {"shop", "my-store", "abc123def", "SHOP"}
SampleUrls ==
    { <<"https", ":", "/", "/", "www", ".", "amazon", ".", "com", "/", "dp", "/", "B01">>,
      <<"https", ":", "/", "/", "acme", ".", "com", "/">>,
      <<"http", ":", "/", "/", "www", ".", "acme", ".", "com", "/", "about">>,
      <<"https", ":", "/", "/", "ACME", ".", "com">>,
      <<"https", ":", "/", "/", "shop", ".", "acme", ".", "com", "/", "x">>,
      <<"https", ":", "/", "/", "acme", ".", "myshopify", ".", "com", "/">>,
      <<"https", ":", "/", "/", "mystorefront", ".", "com", "/", "?", "q", "=", "1">>,
      <<"https", ":", "/", "/", "www", ".", "linkedin", ".", "com", "/", "company", "/", "acme">>,
      <<"www", ".", "acme", ".", "com", "/", "about">>,
      <<"/", "/", "acme", ".", "com", "/", "x">>,
      <<>>,
      <<"https", ":", "/", "/", "acme", ".", "com", ":", "8080", "/", "x">>,
      <<"https", ":", "/", "/", "user", "@", "acme", ".", "com", "/">>,
      <<"https", ":", "/", "/", "[", "acme", ".", "com", "/">>,
      <<"https", ":", "/", "/", "other", ".", "org", "#", "top">> }
Domains ==
    SampleDomains
    \cup {<<sub, ".", platform, ".", "com">> : sub \in SubLabels, platform \in Platforms}
Urls == SampleUrls \cup {NotAString}

\* A call of is_blacklisted_domain or of extract_domain: from is the URL
\* the host was extracted from (<<>> when the host is given as it is)
DomainCall(fn, file, arg, from) ==
    [fn |-> fn, file |-> file, arg |-> arg, from |-> from, state |-> "called",
     blocked |-> FALSE, domain |-> <<>>]

DomainInit ==
    /\ NotRunning
    /\ \E file \in {"batch", "lite"} :
          \/ \E d \in Domains : call = DomainCall("is_blacklisted_domain", file, d, <<>>)
          \/ \E u \in Urls : call = DomainCall("extract_domain", file, u, <<>>)

IsBlacklistedDomainCall ==
    /\ call.fn = "is_blacklisted_domain" /\ call.state = "called"
    /\ call' = [call EXCEPT !.state = "returned",
                            !.blocked = IsBlacklistedDomain(call.file, call.arg)]
    /\ UNCHANGED mainVars

ExtractDomainCall ==
    /\ call.fn = "extract_domain" /\ call.state = "called"
    /\ call' = [call EXCEPT !.state = "returned", !.domain = ExtractDomain(call.arg)]
    /\ UNCHANGED mainVars

\* filter_results line 205 and analyze_with_validation lines 190-192: the
\* extracted domain, when it is truthy, is handed to is_blacklisted_domain
BlacklistExtracted ==
    /\ call.fn = "extract_domain" /\ call.state = "returned"
    /\ ~Falsy(call.domain)
    /\ call' = DomainCall("is_blacklisted_domain", call.file, call.domain, call.arg)
    /\ UNCHANGED mainVars

DomainNext == IsBlacklistedDomainCall \/ ExtractDomainCall \/ BlacklistExtracted

DomainSpec == DomainInit /\ [][DomainNext]_vars

\* ------------------------------------------------------------ filter_results
\* A call of filter_results (lines 200-210) on a list of hits. A hit is
\* its link; a kept hit is the same object with extracted_domain set, and
\* pos is where it stands in results.
FilterCall(hits) ==
    [fn |-> "filter_results", results |-> hits, k |-> 0, seen_domains |-> {},
     filtered |-> <<>>, state |-> "loop"]

KeptHit(pos, link, domain) ==
    [pos |-> pos, link |-> link, extracted_domain |-> domain]

\* A variant of FilterResultsStep that never adds to seen_domains
FilterResultsStepNothingSeen(c) ==
    LET link == c.results[c.k + 1]
        domain == ExtractDomain(link)
    IN  IF ~Falsy(domain) /\ ~IsBlacklistedDomain("batch", domain)
        THEN [c EXCEPT !.k = @ + 1,
                       !.filtered = Append(@, KeptHit(c.k + 1, link, domain))]
        ELSE [c EXCEPT !.k = @ + 1]

\* Lines 204-209: one pass of the for loop
FilterResultsStep(c) ==
    LET link == c.results[c.k + 1]
        domain == ExtractDomain(link)
    IN  IF /\ ~Falsy(domain)
           /\ ~IsBlacklistedDomain("batch", domain)
           /\ domain \notin c.seen_domains
        THEN [c EXCEPT !.k = @ + 1,
                       !.filtered = Append(@, KeptHit(c.k + 1, link, domain)),
                       !.seen_domains = @ \cup {domain}]
        ELSE [c EXCEPT !.k = @ + 1]

\* The links of the hits: blacklisted, plain, the same host written in other
\* ways, a hosted shop, no host, not parsable, another host, not a string
FilterLinks ==
    { <<"https", ":", "/", "/", "www", ".", "amazon", ".", "com", "/", "dp", "/", "B01">>,
      <<"https", ":", "/", "/", "acme", ".", "com", "/">>,
      <<"http", ":", "/", "/", "www", ".", "acme", ".", "com", "/", "about">>,
      <<"https", ":", "/", "/", "ACME", ".", "com">>,
      <<"https", ":", "/", "/", "acme", ".", "myshopify", ".", "com", "/">>,
      <<"www", ".", "acme", ".", "com", "/", "about">>,
      <<"https", ":", "/", "/", "[", "acme", ".", "com", "/">>,
      <<"https", ":", "/", "/", "other", ".", "org", "#", "top">>,
      NotAString }

FilterInit ==
    /\ NotRunning
    /\ FilterLinks \subseteq Urls
    /\ \E hits \in SeqsUpTo(FilterLinks, MaxHits) : call = FilterCall(hits)

FilterResultsLoop ==
    /\ call.fn = "filter_results" /\ call.state = "loop"
    /\ call.k < Len(call.results)
    /\ call' = FilterResultsStep(call)
    /\ UNCHANGED mainVars

FilterResultsReturn ==
    /\ call.fn = "filter_results" /\ call.state = "loop"
    /\ call.k >= Len(call.results)
    /\ call' = [call EXCEPT !.state = "returned"]
    /\ UNCHANGED mainVars

FilterNext == FilterResultsLoop \/ FilterResultsReturn

FilterSpec == FilterInit /\ [][FilterNext]_vars

\* -------------------------------------------------------- search_for_company
\* f'"{name}"'
Quoted(name) == <<"\"">> \o name \o <<"\"">>

\* Lines 160-174: the queries, in the order they are appended. A field is
\* a string or None (a cell missing from a short row).
Queries(seller_name, business_name, category) ==
    (IF ~Falsy(seller_name) THEN <<Quoted(seller_name)>> ELSE <<>>)
    \o (IF ~Falsy(seller_name) /\ ~Falsy(category)
        THEN <<Quoted(seller_name) \o <<" ">> \o category>> ELSE <<>>)
    \o (IF /\ ~Falsy(business_name)
           /\ LowerText(business_name)
                 # LowerText(IF Falsy(seller_name) THEN <<>> ELSE seller_name)
        THEN <<Quoted(business_name)>> ELSE <<>>)

SellerNames == {<<>>, None, <<" ">>, <<"acme">>, <<"ACME">>}
BusinessNames ==
    {<<>>, None, <<"acme">>, <<"Acme", " ", "LLC">>, <<"acme", "\"", " ", "toys">>}
Categories == {<<>>, None, <<"toys">>, <<"toys", "\"">>}

QueryCall(seller_name, business_name, category) ==
    [fn |-> "search_for_company", seller_name |-> seller_name,
     business_name |-> business_name, category |-> category,
     state |-> "called", queries |-> <<>>]

QueryInit ==
    /\ NotRunning
    /\ \E s \in SellerNames, b \in BusinessNames, c \in Categories :
          call = QueryCall(s, b, c)

\* Lines 160-174
BuildQueries ==
    /\ call.fn = "search_for_company" /\ call.state = "called"
    /\ call' = [call EXCEPT !.state = "built",
                            !.queries = Queries(call.seller_name, call.business_name,
                                                call.category)]
    /\ UNCHANGED mainVars

QueryNext == BuildQueries

QuerySpec == QueryInit /\ [][QueryNext]_vars

\* ------------------------------------------- the candidates of one entity
NUM_RESULTS == 8     \* serpapi_search(query, 8), google_cse_search(query, 8)
TOP_N == 12          \* company["search_results"][:12]

\* The hosts the providers know of, and a link to each
HostWords ==
    <<"alpha", "bravo", "charlie", "delta", "echo", "foxtrot", "golf",
      "hotel", "india", "juliet", "kilo", "lima", "mike", "november",
      "oscar", "papa">>
LinkTo(n) == <<"https", ":", "/", "/", HostWords[n], ".", "com", "/">>

\* What a backend can return for a query: nothing (also when the request
\* failed), NUM_RESULTS links, or a short list led by a blacklisted link
\* and a link in capitals
Window(s, n) == [k \in 1..n |-> LinkTo(((s + k - 2) % NumHosts) + 1)]
BackendResponses ==
    { <<>>, Window(1, NUM_RESULTS), Window(NumHosts - NUM_RESULTS + 1, NUM_RESULTS),
      << <<"https", ":", "/", "/", "www", ".", "amazon", ".", "com", "/", "dp", "/", "B01">>,
         LinkTo(2),
         <<"https", ":", "/", "/", "ACME", ".", "com">>,
         LinkTo(1) >> }

\* A hit as a backend returned it: its link, the source tag, and where it
\* came from (the query's place in queries, the place in the response)
Tagged(response, q, source) ==
    [k \in 1..Len(response) |->
        [link |-> response[k], source |-> source, query |-> q, rank |-> k]]

Engines == {"serp", "google", "both"}
QueryCounts ==
    {Len(Queries(s, b, c)) : s \in SellerNames, b \in BusinessNames, c \in Categories}

\* The way of one entity from its queries to the prompt: search_for_company
\* (lines 176-186), filter_results (line 402) and the candidates
\* analyze_batch puts in the prompt (lines 227-232)
CandidateCall(engine, queries) ==
    [fn |-> "candidates", engine |-> engine, queries |-> queries, q |-> 0,
     results |-> <<>>, state |-> "searching", search_results |-> <<>>,
     prompt |-> <<>>]

\* A variant of SearchPass that asks Google CSE before SerpAPI
SearchPassGoogleFirst(c, serp, google) ==
    [c EXCEPT !.q = @ + 1,
              !.results = @ \o (IF c.engine \in {"google", "both"}
                                THEN Tagged(google, c.q + 1, "google_cse") ELSE <<>>)
                            \o (IF c.engine \in {"serp", "both"}
                                THEN Tagged(serp, c.q + 1, "serp") ELSE <<>>)]

\* Lines 177-184: one pass of the loop over the queries
SearchPass(c, serp, google) ==
    [c EXCEPT !.q = @ + 1,
              !.results = @ \o (IF c.engine \in {"serp", "both"}
                                THEN Tagged(serp, c.q + 1, "serp") ELSE <<>>)
                            \o (IF c.engine \in {"google", "both"}
                                THEN Tagged(google, c.q + 1, "google_cse") ELSE <<>>)]

\* filter_results, lines 200-210, from the first hit to the return
RECURSIVE FilterResultsFrom(_)
FilterResultsFrom(c) ==
    IF c.k >= Len(c.results) THEN c.filtered
    ELSE FilterResultsFrom(FilterResultsStep(c))
FilterResults(hits) ==
    FilterResultsFrom(FilterCall([k \in 1..Len(hits) |-> hits[k].link]))

\* Lines 228-230: the domains of search_results[:12]
PromptCandidates(search_results) ==
    [k \in 1..Min(TOP_N, Len(search_results)) |->
        search_results[k].extracted_domain]

CandidateInit ==
    /\ NotRunning
    /\ \E engine \in Engines, n \in QueryCounts : call = CandidateCall(engine, n)

SearchForCompanyLoop ==
    /\ call.fn = "candidates" /\ call.state = "searching"
    /\ call.q < call.queries
    /\ \E serp \in BackendResponses, google \in BackendResponses :
          call' = SearchPass(call, serp, google)
    /\ UNCHANGED mainVars

\* Line 402 of main
FilterCandidates ==
    /\ call.fn = "candidates" /\ call.state = "searching"
    /\ call.q >= call.queries
    /\ call' = [call EXCEPT !.state = "filtered",
                            !.search_results = FilterResults(call.results)]
    /\ UNCHANGED mainVars

BuildPrompt ==
    /\ call.fn = "candidates" /\ call.state = "filtered"
    /\ call' = [call EXCEPT !.state = "prompted",
                            !.prompt = PromptCandidates(call.search_results)]
    /\ UNCHANGED mainVars

CandidateNext == SearchForCompanyLoop \/ FilterCandidates \/ BuildPrompt

CandidateSpec == CandidateInit /\ [][CandidateNext]_vars

\* ----------------------------------- from the candidates to the row's cell
LITE_TOP_N == 10     \* filtered_domain_results[:10]

\* The candidates' domains in the prompt. enrich_sellers.py: filter_results
\* and the cut of analyze_batch; enrich_sellers_lite.py lines 190-200:
\* blacklisted and empty hosts are left out, repeats are not
ShownCandidates(file, links) ==
    IF file = "batch"
    THEN PromptCandidates(FilterResults(Tagged(links, 1, "serp")))
    ELSE LET kept == SelectSeq(links,
                        LAMBDA l : /\ ~Falsy(ExtractDomain(l))
                                   /\ ~IsBlacklistedDomain("lite", ExtractDomain(l)))
         IN  [k \in 1..Min(LITE_TOP_N, Len(kept)) |-> ExtractDomain(kept[k])]

\* What the LLM can put under "domain" and "domain_confidence": null, the
\* empty string, a host among the links, a blacklisted host, a host that
\* no link has
LlmDomains ==
    { None, <<>>, <<"acme", ".", "com">>, <<"amazon", ".", "com">>,
      <<"acme", ".", "myshopify", ".", "com">>, <<"mystorefront", ".", "com">> }
LlmAnswers == [domain : LlmDomains, confidence : {"high", "low"}]

\* What main writes in the row's output column for a parsed answer:
\* enrich_sellers.py lines 415-424; enrich_sellers_lite.py lines 267-270
\* (the low-confidence floor) and 403-412
RecordedValue(file, answer) ==
    LET domain == IF file = "lite" /\ answer.confidence = "low"
                  THEN None ELSE answer.domain
    IN  IF ~Falsy(domain) THEN domain ELSE <<NOT_FOUND>>

RecordCall(file, links) ==
    [fn |-> "record", file |-> file, results |-> links, state |-> "searched",
     shown |-> <<>>, answer |-> [domain |-> None, confidence |-> "high"],
     out |-> <<>>]

RecordInit ==
    /\ NotRunning
    /\ \E file \in {"batch", "lite"}, links \in SeqsUpTo(FilterLinks, MaxHits - 1) :
          call = RecordCall(file, links)

ShowCandidates ==
    /\ call.fn = "record" /\ call.state = "searched"
    /\ call' = [call EXCEPT !.state = "shown",
                            !.shown = ShownCandidates(call.file, call.results)]
    /\ UNCHANGED mainVars

RecordAnswer ==
    /\ call.fn = "record" /\ call.state = "shown"
    /\ \E answer \in LlmAnswers :
          call' = [call EXCEPT !.state = "recorded", !.answer = answer,
                               !.out = RecordedValue(call.file, answer)]
    /\ UNCHANGED mainVars

RecordNext == ShowCandidates \/ RecordAnswer

RecordSpec == RecordInit /\ [][RecordNext]_vars

\* One run of the batched pipeline, which may be killed but is not run again
BatchSteps ==
    \/ BatchRead \/ BatchSearch \/ BatchArbitrate
    \/ WriteOpen \/ WriteFlush \/ WriteClose

OneRunNext ==
    \/ BatchRead \/ BatchSearch \/ BatchArbitrate
    \/ WriteOpen \/ WriteFlush \/ WriteClose
    \/ Kill

\* A script that is not killed keeps running
OneRunInit == Init /\ variant = "batch"
OneRunSpec == OneRunInit /\ [][OneRunNext]_vars /\ WF_vars(BatchSteps)

\* C12: per-batch exception containment. When the try block of a batch of
\* the batched pipeline raised, every entity of the batch is recorded as
\* NOT FOUND and is in processed_rows, and the script has reached the
\* checkpoint of that batch; a script that crashed had issued no search and
\* no LLM call; and from a batch that raised, the script, unless it is
\* killed, reaches the end of the final write.
C12_Contained ==
    /\ (BatchRun /\ pc = "checkpoint" /\ raised)
          => \A j \in 1..Len(Batch) :
                /\ input_rows[Batch[j].row].out = NOT_FOUND
                /\ Batch[j].index \in DOMAIN processed_rows
    /\ (BatchRun /\ pc = "crashed") => (searched = 0 /\ llm_calls = 0)
    /\ (BatchRun /\ raised) => pc \in {"checkpoint", "search", "final", "done"}
SerpapiCall == call.fn = "serpapi_search"
NoSuccess(c) == \A k \in 1..Len(c.outcomes) : c.outcomes[k] # "ok"
C13_Bounded ==
    SerpapiCall
        => /\ call.requests <= call.max_retries
           /\ call.requests = Len(call.outcomes)
           /\ call.state # "raised"
           /\ (call.state = "returned" /\ NoSuccess(call)) => call.ret = "empty"
C13_BoundedRetry ==
    /\ []C13_Bounded
    /\ SerpapiCall ~> (SerpapiCall /\ call.state = "returned")

\* C13 witness: a call with max_retries 3 that was rate limited, then hit a
\* transport error, then was rate limited again, and returned empty.
C13_Witness ==
    /\ SerpapiCall /\ call.max_retries = 3 /\ call.state = "returned"
    /\ call.outcomes = <<"rate_limited", "transport", "rate_limited">>
    /\ call.ret = "empty" /\ call.requests = 3

\* C14: search failure degrades to empty. A backend call whose request met
\* a transport error or an error status does not raise, and when no request
\* of the call succeeded it returns the empty list.
C14_FailureDegradesToEmpty ==
    (call.fn \in {"serpapi_search", "google_cse_search", "google_search"})
        => /\ call.state # "raised"
           /\ (call.state = "returned" /\ NoSuccess(call)) => call.ret = "empty"

\* C15: blacklist exactness, in both files. is_blacklisted_domain answers
\* true exactly when the host is empty, or its lower-cased, stripped form is
\* in BLACKLIST_DOMAINS or matches a pattern of the file. In particular it
\* answers true for amazon.com, for what extract_domain makes of a
\* www.amazon.com URL, and for every <label>.<platform>.com of the six
\* hosting platforms, and false for mystorefront.com.
AmazonCom == <<"amazon", ".", "com">>
C15_BlacklistExact ==
    (call.fn = "is_blacklisted_domain" /\ call.state = "returned")
        => LET host == StripText(LowerText(call.arg))
           IN  /\ call.blocked = (\/ call.arg = <<>>
                                  \/ host \in BLACKLIST_DOMAINS
                                  \/ MatchesPattern(call.file, host))
               /\ host = AmazonCom => call.blocked
               /\ LowerText(Netloc(call.from)) = <<"www", ".">> \o AmazonCom
                     => call.blocked
               /\ \A platform \in Platforms :
                     (/\ Len(host) = 5 /\ IsWord(host[1])
                      /\ SubSeq(host, 2, 5) = <<".", platform, ".", "com">>)
                         => call.blocked
               /\ host = <<"mystorefront", ".", "com">> => ~call.blocked

\* C15 witness: the per-row script's is_blacklisted_domain, which has no
\* pattern for amazon subdomains, has answered true for the host that
\* extract_domain made of https://www.amazon.com/dp/B01.
C15_Witness ==
    /\ call.fn = "is_blacklisted_domain" /\ call.state = "returned"
    /\ call.file = "lite"
    /\ StartsWith(call.from, <<"https", ":", "/", "/", "www", ".", "amazon">>)
    /\ ~MatchesPattern("lite", <<"www", ".">> \o AmazonCom)
    /\ call.arg = AmazonCom /\ call.blocked

\* C16: configuration errors are fatal before processing. When the input
\* file does not exist, or its header lacks one of Seller, Business Name and
\* Category, main goes from its start straight to return 1: the files are
\* left as they are, no search and no LLM call has been issued and no write
\* has been made; and that is the only way main returns 1.
Misconfigured(f) ==
    \/ ~f.exists
    \/ /\ f.header # <<>>
       /\ \E c \in {"Seller", "Business Name", "Category"} : ~InSeq(f.header, c)
C16_ConfigErrorsFatal ==
    [][/\ (pc = "start" /\ pc' \notin {"start", "killed"}
             /\ Misconfigured(fs[args.input]))
           => pc' = "exit1"
       /\ pc' = "exit1"
           => /\ pc \in {"start", "exit1"}
              /\ Misconfigured(fs[args.input])
              /\ fs' = fs /\ ~wopen'
              /\ searched' = 0 /\ llm_calls' = 0 /\ ckpts' = 0]_vars

\* C16 witness: main has returned 1 on a table that has the two name
\* columns and rows to resolve, but no Category column.
C16_Witness ==
    /\ pc = "exit1" /\ fs[args.input].exists
    /\ InSeq(fs[args.input].header, "Seller")
    /\ InSeq(fs[args.input].header, "Business Name")
    /\ ~InSeq(fs[args.input].header, "Category")
    /\ Len(fs[args.input].rows) = NumRows
    /\ searched = 0 /\ llm_calls = 0 /\ ~fs["out.csv"].exists

\* C17: the row cap applies to the eligible rows only. With --limit L, for
\* every L >= 0 (the value 0 of args.limit is what --limit 0 gives; the
\* scripts treat it like an absent option), a run processes exactly the
\* first min(L, e) of the e rows that have a name and an empty output
\* column, and the finished run's file holds every other row as it was read.
EligibleRows(rows) ==
    SelectSeq(SeqRange(1, Len(rows)),
              LAMBDA k : ~(rows[k].business = "" /\ rows[k].seller = "")
                         /\ Strip(rows[k].out) = "")
WithinCap(rows, L) ==
    LET e == EligibleRows(rows)
    IN  {e[j] : j \in 1..Min(L, Len(e))}
ProcessedRows ==
    IF variant = "batch" THEN {to_process[j].index : j \in 1..Len(to_process)}
    ELSE {k \in 1..Len(input_rows) : input_rows[k].out # input0.rows[k].out}
C17_RowCap ==
    /\ (BatchRun /\ pc \in {"search", "arbitrate", "checkpoint", "final", "done"})
          => ProcessedRows = WithinCap(input0.rows, args.limit)
    /\ (LiteRun /\ pc \in {"final", "done"})
          => ProcessedRows = WithinCap(input0.rows, args.limit)
    /\ pc = "done"
          => \A k \in 1..Len(input0.rows) :
                k \notin WithinCap(input0.rows, args.limit)
                    => (k <= Len(OutFile.rows) /\ OutFile.rows[k] = input0.rows[k])

\* C18: row payload preserved. In the output file, at every moment of a
\* run, every row holds the payload columns of the input row at its
\* position, and a row that was skipped (no name, or already resolved) or
\* left out because the cap was reached is the input row, output column
\* included.
LeftOut(k) ==
    \/ input0.rows[k].business = "" /\ input0.rows[k].seller = ""
    \/ Strip(input0.rows[k].out) # ""
    \/ args.limit # 0 /\ k \notin WithinCap(input0.rows, args.limit)
C18_PayloadPreserved ==
    input_rows # <<>>
        => \A k \in 1..Len(OutFile.rows) :
              /\ OutFile.rows[k].id = input0.rows[k].id
              /\ OutFile.rows[k].seller = input0.rows[k].seller
              /\ OutFile.rows[k].business = input0.rows[k].business
              /\ LeftOut(k) => OutFile.rows[k] = input0.rows[k]

\* C18 witness: a run with --limit 1 on two eligible rows has finished:
\* row 1 holds a domain next to its payload, row 2 is as it was read.
C18_Witness ==
    /\ BatchRun /\ pc = "done" /\ args.limit = 1 /\ args.input = args.output
    /\ EligibleRows(input0.rows) = <<1, 2>>
    /\ OutFile.rows[1].out = "b.com" /\ OutFile.rows[1].seller = "acme"
    /\ OutFile.rows[1].business = "Acme LLC"
    /\ OutFile.rows[2] = input0.rows[2]

\* C19: arbiter parse failure degrades to no-match. Whatever text the LLM
\* answered, what analyze_batch returns to main is a list of exactly
\* len(batch) objects: an answer that is not JSON, not an array, of another
\* length or with an element that is not an object comes back as len(batch)
\* decisions with domain null.
C19_ParseFailureNoMatch ==
    (BatchRun /\ pc = "checkpoint" /\ ~results.exc)
        => /\ results.iter
           /\ Len(results.elems) = Len(Batch)
           /\ \A j \in 1..Len(results.elems) : results.elems[j].kind = "obj"

\* C20: candidate aggregation. Of the hits it has gone through,
\* filter_results keeps, in their order, exactly the first hit of each
\* extracted domain that is non-empty and not blacklisted: no domain twice,
\* none empty or blacklisted, each kept hit the hit it was with its domain
\* set, and every hit left out unparsable, empty, blacklisted or a repeat of
\* an earlier hit's domain.
Acceptable(link) ==
    /\ ExtractDomain(link) # None /\ ExtractDomain(link) # <<>>
    /\ ~IsBlacklistedDomain("batch", ExtractDomain(link))
FirstOfItsDomain(hits, p) ==
    \A q \in 1..(p - 1) : ExtractDomain(hits[q]) # ExtractDomain(hits[p])
C20_CandidateAggregation ==
    call.fn = "filter_results"
        => LET hits == call.results
               kept == call.filtered
           IN  /\ \A j \in 1..Len(kept) :
                     /\ kept[j].pos \in 1..call.k
                     /\ kept[j].link = hits[kept[j].pos]
                     /\ kept[j].extracted_domain = ExtractDomain(kept[j].link)
                     /\ Acceptable(kept[j].link)
               /\ \A j1, j2 \in 1..Len(kept) :
                     /\ j1 < j2 => kept[j1].pos < kept[j2].pos
                     /\ j1 # j2 => kept[j1].extracted_domain # kept[j2].extracted_domain
               /\ \A p \in 1..call.k :
                     (\E j \in 1..Len(kept) : kept[j].pos = p)
                         <=> (Acceptable(hits[p]) /\ FirstOfItsDomain(hits, p))
               /\ call.state = "returned" => call.k = Len(hits)

\* C20 witness: of an amazon.com hit, an acme.com hit and a www.acme.com
\* hit, in this order, filter_results has returned the second alone.
C20_Witness ==
    /\ call.fn = "filter_results" /\ call.state = "returned"
    /\ Len(call.results) = 3
    /\ ExtractDomain(call.results[1]) = <<"amazon", ".", "com">>
    /\ ExtractDomain(call.results[2]) = <<"acme", ".", "com">>
    /\ StartsWith(Netloc(call.results[3]), <<"www", ".", "acme">>)
    /\ Len(call.filtered) = 1 /\ call.filtered[1].pos = 2

\* C21: batching and one LLM call per batch. With batch size b and n
\* entities in to_process, the batch at hand is the next at most b entities
\* of to_process, in order, starting at a multiple of b; when a batch is
\* about to be searched, every entity before it has been searched once and
\* one LLM call has been issued for each batch before it; and at the end
\* n searches and ceil(n / b) LLM calls have been issued, whether the calls
\* failed or not.
Ceil(n, b) == (n + b - 1) \div b
C21_Batching ==
    BatchRun
        => LET n == Len(to_process)
               b == args.batch_size
           IN  /\ pc \in {"search", "arbitrate", "checkpoint"}
                     => /\ batch_start % b = 0 /\ batch_start < n
                        /\ Len(Batch) = Min(b, n - batch_start)
                        /\ \A j \in 1..Len(Batch) : Batch[j] = to_process[batch_start + j]
               /\ pc = "search"
                     => searched = batch_start /\ llm_calls * b = batch_start
               /\ pc = "arbitrate"
                     => /\ searched = batch_start + Len(Batch)
                        /\ llm_calls * b = batch_start
               /\ pc = "checkpoint"
                     => /\ searched = batch_start + Len(Batch)
                        /\ llm_calls * b = batch_start + b
               /\ (pc \in {"final", "done"} /\ input_rows # <<>>)
                     => searched = n /\ llm_calls = Ceil(n, b)

\* C21 witness: a run with batch size 1 on two entities has reached its
\* final write after two searches and two LLM calls, the last of which
\* failed.
C21_Witness ==
    /\ BatchRun /\ pc = "final" /\ ~wopen
    /\ args.batch_size = 1 /\ Len(to_process) = 2
    /\ searched = 2 /\ llm_calls = 2 /\ results.exc

\* C22: checkpoint ordering in the batched pipeline. The output file is
\* written only at the checkpoint of a batch and at the end: never while a
\* batch is being searched or arbitrated. When the write of a checkpoint
\* starts, every decision the batch came to is in its row; when the search
\* of a batch starts, one write has been completed for each batch before
\* it; and the run ends after one write per batch and one final write.
Decided(batch, res) ==
    IF FirstRaise(batch, res) # 0 THEN 1..Len(batch) ELSE Recorded(batch, res)
C22_WriteOrder ==
    BatchRun
        => /\ (fs' # fs \/ wopen' # wopen) => pc \in {"checkpoint", "final"}
           /\ (pc = "checkpoint" /\ ~wopen /\ wopen')
                 => \A j \in Decided(Batch, results) :
                       /\ input_rows[Batch[j].row].out # ""
                       /\ PendingRows[Batch[j].index].out
                             = input_rows[Batch[j].row].out
           /\ (pc = "search" /\ pc' = "arbitrate")
                 => /\ ckpts * args.batch_size = batch_start
                    /\ ~wopen /\ fs' = fs
           /\ (pc = "arbitrate" /\ pc' = "checkpoint")
                 => /\ ckpts * args.batch_size = batch_start
                    /\ ~wopen /\ fs' = fs
           /\ pc' = "done"
                 => ckpts' = Ceil(Len(to_process), args.batch_size) + 1
C22_CheckpointOrdering == [][C22_WriteOrder]_vars

\* C22 witness: the checkpoint of the first batch, whose call failed, is
\* being written while the second batch has not been searched.
C22_Witness ==
    /\ BatchRun /\ pc = "checkpoint" /\ wopen /\ raised
    /\ ckpts = 0 /\ batch_start = 0 /\ searched = 1 /\ Len(to_process) = 2
    /\ input_rows[Batch[1].row].out = NOT_FOUND

\* C23: query builder. For every seller name, business name and category,
\* the queries are, in this order: the quoted seller name when there is
\* one; the quoted seller name followed by the category when there are
\* both; the quoted business name when there is one and it differs from
\* the seller name whatever the case. No query is empty and no query
\* appears twice.
Given(field) == field # None /\ field # <<>>
C23_QueryBuilder ==
    (call.fn = "search_for_company" /\ call.state = "built")
        => LET s == call.seller_name
               b == call.business_name
               c == call.category
               q1 == <<"\"">> \o s \o <<"\"">>
               q2 == <<"\"">> \o s \o <<"\"", " ">> \o c
               q3 == <<"\"">> \o b \o <<"\"">>
               differs == ~Given(s) \/ LowerText(b) # LowerText(s)
               expected == (IF Given(s) THEN <<q1>> ELSE <<>>)
                           \o (IF Given(s) /\ Given(c) THEN <<q2>> ELSE <<>>)
                           \o (IF Given(b) /\ differs THEN <<q3>> ELSE <<>>)
               qs == call.queries
           IN  /\ qs = expected
               /\ \A k \in 1..Len(qs) : qs[k] # <<>>
               /\ \A k1, k2 \in 1..Len(qs) : k1 # k2 => qs[k1] # qs[k2]

\* C24: domain extractor. extract_domain returns for every input. For a
\* URL with a scheme and an authority it returns the host: the authority
\* without user-info and port, lower-cased, less one leading "www.". For an
\* input without a parsable host it returns None or the empty string.
HostOfAuthority(authority) ==
    LET at == IF \E k \in 1..Len(authority) : authority[k] = "@"
              THEN CHOOSE k \in 1..Len(authority) :
                      authority[k] = "@"
                      /\ \A j \in (k + 1)..Len(authority) : authority[j] # "@"
              ELSE 0
        hostport == SubSeq(authority, at + 1, Len(authority))
        colon == FirstOf(hostport, {":"})
    IN  IF colon = 0 THEN hostport ELSE SubSeq(hostport, 1, colon - 1)
C24_DomainExtractor ==
    (call.fn = "extract_domain" /\ call.state = "returned")
        => LET url == call.arg
               parsable == ~UrlparseRaises(url) /\ Netloc(url) # <<>>
               host == LowerText(HostOfAuthority(Netloc(url)))
           IN  /\ (parsable /\ SchemeLength(url) > 0)
                     => call.domain = IF StartsWith(host, <<"www", ".">>)
                                      THEN SubSeq(host, 3, Len(host)) ELSE host
               /\ ~parsable => (call.domain = None \/ call.domain = <<>>)

\* C26 as stated: backoff schedule. The pause after the k-th of the
\* rate-limited attempts of a call is k x 10 seconds, these pauses grow
\* with k, and the pauses of one call total at most
\* 10 x max_retries x (max_retries + 1) / 2 seconds.
RECURSIVE TotalPause(_)
TotalPause(pauses) ==
    IF pauses = <<>> THEN 0
    ELSE pauses[1] + TotalPause(SubSeq(pauses, 2, Len(pauses)))
RateLimitedBefore(c, j) ==
    Cardinality({h \in 1..j : c.outcomes[h] = "rate_limited"})
PauseBound(c) ==
    (RATE_LIMIT_WAIT * c.max_retries * (c.max_retries + 1)) \div 2
C26_PauseByRateLimitCount ==
    SerpapiCall
        => /\ \A j \in 1..Len(call.pauses) :
                call.outcomes[j] = "rate_limited"
                    => call.pauses[j]
                           = RateLimitedBefore(call, j) * RATE_LIMIT_WAIT
           /\ TotalPause(call.pauses) <= PauseBound(call)

\* C26: backoff schedule. The pause after a rate-limited attempt is k x 10
\* seconds where k numbers the attempt among all attempts of the call, the
\* ones that failed otherwise included; the rate-limit pauses of a call
\* grow strictly, and the pauses of one call total at most
\* 10 x max_retries x (max_retries + 1) / 2 seconds.
C26_BackoffSchedule ==
    SerpapiCall
        => /\ \A j \in 1..Len(call.pauses) :
                call.outcomes[j] = "rate_limited"
                    => call.pauses[j] = j * RATE_LIMIT_WAIT
           /\ \A h, j \in 1..Len(call.pauses) :
                (h < j /\ call.outcomes[h] = "rate_limited"
                       /\ call.outcomes[j] = "rate_limited")
                    => call.pauses[h] < call.pauses[j]
           /\ TotalPause(call.pauses) <= PauseBound(call)
C26_Witness ==
    /\ SerpapiCall
    /\ call.state = "returned"
    /\ call.max_retries = 3
    /\ call.outcomes = <<"rate_limited", "rate_limited", "rate_limited">>
    /\ call.pauses = <<10, 20, 30>>
    /\ TotalPause(call.pauses) = PauseBound(call)

\* C28: run statistics are consistent. At the end of every run of the
\* batched pipeline, found + not_found is the number of entities in
\* to_process, found is the number of their rows holding a domain, and
\* not_found the number of their rows holding NOT FOUND.
RowsOfRun(holds(_)) ==
    Cardinality({j \in 1..Len(to_process) :
                    holds(input_rows[to_process[j].row].out)})
IsDomain(v) == Strip(v) # "" /\ v # NOT_FOUND
IsNotFound(v) == v = NOT_FOUND
C28_StatsConsistent ==
    (BatchRun /\ pc = "done")
        => /\ stats.found + stats.not_found = Len(to_process)
           /\ stats.found = RowsOfRun(IsDomain)
           /\ stats.not_found = RowsOfRun(IsNotFound)

\* C25: candidate ordering and top-N truncation. The candidates of an
\* entity stand in the order of their query's priority, then SerpAPI before
\* Google CSE for the same query, then the order of the backend's
\* response; and the prompt holds exactly the first min(12, n) of the n
\* filtered candidates, in that order.
CameBefore(a, b) ==
    \/ a.query < b.query
    \/ a.query = b.query /\ a.source = "serp" /\ b.source = "google_cse"
    \/ a.query = b.query /\ a.source = b.source /\ a.rank < b.rank
OriginOf(candidate) == call.results[candidate.pos]
C25_CandidateOrder ==
    (call.fn = "candidates" /\ call.state \in {"filtered", "prompted"})
        => LET shown == call.search_results
               n == Len(shown)
           IN  /\ \A h, j \in 1..n :
                    h < j => CameBefore(OriginOf(shown[h]), OriginOf(shown[j]))
               /\ \A h \in 1..n :
                    /\ shown[h].link = OriginOf(shown[h]).link
                    /\ OriginOf(shown[h]).source
                          \in (IF call.engine = "both" THEN {"serp", "google_cse"}
                               ELSE IF call.engine = "serp" THEN {"serp"}
                               ELSE {"google_cse"})
               /\ call.state = "prompted"
                    => /\ Len(call.prompt) = (IF n < 12 THEN n ELSE 12)
                       /\ \A k \in 1..Len(call.prompt) :
                            call.prompt[k] = shown[k].extracted_domain
C25_Witness ==
    /\ call.fn = "candidates" /\ call.state = "prompted"
    /\ Len(call.search_results) > 12
    /\ Len(call.prompt) = 12
    /\ \E h, j \in 1..12 :
          /\ OriginOf(call.search_results[h]).source = "serp"
          /\ OriginOf(call.search_results[j]).source = "google_cse"
          /\ OriginOf(call.search_results[h]).query
                = OriginOf(call.search_results[j]).query
    /\ \E h \in 1..Len(call.search_results) :
          OriginOf(call.search_results[h]).query > 1

\* C27: the recorded domain comes from the candidates. In both pipelines a
\* value other than NOT FOUND written in a row's output column is the
\* extracted domain of one of the candidates shown to the LLM for that
\* entity, and so is not a blacklisted host.
C27_RecordedFromCandidates ==
    (call.fn = "record" /\ call.state = "recorded" /\ call.out # <<NOT_FOUND>>)
        => /\ \E k \in 1..Len(call.shown) : call.shown[k] = call.out
           /\ ~IsBlacklistedDomain(call.file, call.out)
=============================================================================
